---- MODULE Spec2Model ----
(***************************************************************************)
(* Job lifecycle manager of agent-ops-backend (src/main.py): the committed *)
(* record store (jobs, outputs), the request handlers create_job,          *)
(* chat_with_job and get_latest_output, and the background coroutine       *)
(* execute_job, run by a single-threaded cooperative event loop.           *)
(***************************************************************************)
EXTENDS Integers, Sequences, FiniteSets, TLC

\* ---------------------------------------------------------------- bounds
MaxJobs == 2        \* number of create_job requests explored
MaxTime == 2        \* the wall clock reads values in 1..MaxTime

\* ------------------------------------------------------------- constants
NULL == 0                   \* a nullable DateTime column holding no value
MaxOutputChars == 9000      \* LLM_MAX_OUTPUT_CHARS default
TruncNoticeLen == 39        \* len("\n\n[Output truncated to character limit]")
LeadListNoticeLen == 555    \* len of the deprecation notice of generate_lead_list

\* models.py JobStatus
QUEUED == "queued"
RUNNING == "running"
SUCCEEDED == "succeeded"
FAILED == "failed"
JobStatus == {QUEUED, RUNNING, SUCCEEDED, FAILED}

\* models.py JobType
LEAD_LIST == "lead_list"
PROMPT_PACK == "prompt_pack"
WEEKLY_PILOT_MEMO == "weekly_pilot_memo"
RESEARCH_BRIEF == "research_brief"
JobType == {LEAD_LIST, PROMPT_PACK, WEEKLY_PILOT_MEMO, RESEARCH_BRIEF}

JobIds == 1..MaxJobs

\* error_text of a job that has none (the column is NULL)
NoText == "<null>"

VARIABLES
    jobs,       \* committed rows of table jobs: a function id -> row
    outputs,    \* committed rows of table outputs, in id order
    task,       \* per job id: the frame of its execute_job coroutine
    req,        \* the request handler that holds the event loop (with the
                \* state of its store session), or NoReq
    resp,       \* the response of the last finished request
    now,        \* the last value read from datetime.now(timezone.utc)
    nextId      \* the next fresh job identifier (uuid4)

vars == <<jobs, outputs, task, req, resp, now, nextId>>

\* ------------------------------------------------------------ exceptions
\* Exception classes that the modelled code raises or receives.
NoExc == "none"
DBError == "sqlalchemy.exc.OperationalError"
PendingRollback == "sqlalchemy.exc.PendingRollbackError"
GeneratorError == "Exception"
UnknownType == "ValueError"
LLMError == "LLMError"
HTTPException == "HTTPException"

\* str(e) of the exceptions that can reach the handler of execute_job
Str(e) ==
    CASE e = DBError         -> "(OperationalError) database error"
      [] e = PendingRollback -> "This Session's transaction has been rolled back"
      [] e = GeneratorError  -> "Failed to generate: LLM error"
      [] e = UnknownType     -> "Unknown job type"
      [] OTHER               -> "error"

\* A store operation (a query or a commit) either returns or raises.
StoreOutcomes == {"ok", "db_error"}

\* ----------------------------------------------------------- llm.generate
\* Lengths of the text of the first content block the API may answer with.
RespLens == {0, 2001}

\* llm.generate lines 58-67: the text, cut at max_output_chars plus a notice
Truncate(len) ==
    IF len > MaxOutputChars THEN MaxOutputChars + TruncNoticeLen ELSE len

\* The outcomes of one call of llm.generate: a text (its length) or LLMError.
GenerateResults ==
    {[ok |-> TRUE, len |-> Truncate(l)] : l \in RespLens}
        \cup {[ok |-> FALSE, len |-> 0]}

\* ------------------------------------------- chat_with_job: the prompt
\* main.py 308: the number of characters of the output that go in the prompt
ChatContextCap == 2000

\* s[:n] of a text of len characters: its first n characters, all of them
\* when it has fewer (the number of characters of the slice)
Slice(len, n) == IF len < n THEN len ELSE n

\* no prompt was built
NoCtx == [prefix |-> 0, marker |-> ""]

\* As ChatContext, had the marker been added from the cap on
ChatContextMarkedAtCap(len) ==
    [prefix |-> Slice(len, ChatContextCap),
     marker |-> IF len >= ChatContextCap THEN "..." ELSE ""]

\* main.py 308: {output.content_text[:2000]}{'...' if len(...) > 2000 else ''}
\* for an output of len characters: how many of its leading characters are
\* in the prompt, and what follows them
ChatContext(len) ==
    [prefix |-> Slice(len, ChatContextCap),
     marker |-> IF len > ChatContextCap THEN "..." ELSE ""]

\* ------------------------------------------------------------ event loop
NoReq == [op |-> "none", id |-> 0, sess |-> "closed"]

\* pcs at which the coroutine of a job is running on the event loop
OnLoop ==
    {"query", "mark_running", "dispatch", "generate", "store", "except", "finally"}

\* The loop takes up another task or request only when nothing is running:
\* a handler or coroutine runs without interruption until it awaits or ends.
LoopIdle ==
    /\ req = NoReq
    /\ \A j \in JobIds : task[j].pc \notin OnLoop

NoTask ==
    [pc |-> "none", job_type |-> "none", sess |-> "closed",
     exc |-> NoExc, content |-> 0, escaped |-> FALSE]

\* A response: the HTTP status code and detail; the job (create, chat) or the
\* type (latest) asked for; the status of a returned Job; whether the handler
\* called llm.generate; the id of a returned Output and the number of rows
\* the outputs table held when it was queried; the excerpt of the output
\* that a chat put in its prompt.
NoResp ==
    [op |-> "none", code |-> 0, detail |-> "", job |-> 0, type |-> "",
     status |-> "", llm |-> FALSE, out |-> 0, rows |-> 0, ctx |-> NoCtx]

Init ==
    /\ jobs = <<>>
    /\ outputs = <<>>
    /\ task = [j \in JobIds |-> NoTask]
    /\ req = NoReq
    /\ resp = NoResp
    /\ now = 1
    /\ nextId = 1

\* ----------------------------------------------------------------- clock
\* datetime.now(timezone.utc): a reading not before the last one
ClockReads == now..MaxTime

\* ------------------------------------------------------------ create_job
\* request.params as create_job serializes it (json.dumps): an opaque payload
ParamsArgs == {"{\"topic\": \"X\"}"}

\* Job(id, type, status=QUEUED, params_json) with the column defaults
NewJob(jt, p, t) ==
    [type |-> jt, status |-> QUEUED, params_json |-> p,
     created_at |-> t, updated_at |-> t,
     started_at |-> NULL, finished_at |-> NULL, error_text |-> NoText]

\* As SpawnedTask, had create_job awaited execute_job(...) in place: the
\* coroutine runs at once, inside the request
SpawnedTaskAwaited(jt) ==
    [pc |-> "query", job_type |-> jt, sess |-> "active",
     exc |-> NoExc, content |-> 0, escaped |-> FALSE]

\* asyncio.create_task(execute_job(...)): the coroutine is queued, not run
SpawnedTask(jt) ==
    [pc |-> "ready", job_type |-> jt, sess |-> "closed",
     exc |-> NoExc, content |-> 0, escaped |-> FALSE]

\* As create_job, had asyncio.create_task been called before db.commit():
\* the task is spawned whether the commit succeeds or not
create_job_spawns_first(jt) ==
    /\ LoopIdle
    /\ nextId <= MaxJobs
    /\ \E o \in StoreOutcomes :
        IF o = "ok"
        THEN \E t \in ClockReads, p \in ParamsArgs :
             /\ jobs' = (nextId :> NewJob(jt, p, t)) @@ jobs
             /\ req' = [op |-> "create", id |-> nextId, sess |-> "active"]
             /\ resp' = resp
             /\ now' = t
        ELSE /\ resp' = [NoResp EXCEPT !.op = "create", !.code = 500,
                                       !.detail = "Internal Server Error"]
             /\ UNCHANGED <<jobs, req, now>>
    /\ task' = [task EXCEPT ![nextId] = SpawnedTask(jt)]
    /\ nextId' = nextId + 1
    /\ UNCHANGED outputs

\* main.py 157-173: insert the QUEUED row, commit, spawn the execution task
create_job(jt) ==
    /\ LoopIdle
    /\ nextId <= MaxJobs
    /\ \E o \in StoreOutcomes :
        IF o = "ok"
        THEN \E t \in ClockReads, p \in ParamsArgs :
             /\ jobs' = (nextId :> NewJob(jt, p, t)) @@ jobs
             /\ task' = [task EXCEPT ![nextId] = SpawnedTask(jt)]
             /\ req' = [op |-> "create", id |-> nextId, sess |-> "active"]
             /\ resp' = resp
             /\ now' = t
        ELSE /\ resp' = [NoResp EXCEPT !.op = "create", !.code = 500,
                                       !.detail = "Internal Server Error"]
             /\ UNCHANGED <<jobs, task, req, now>>
    /\ nextId' = nextId + 1
    /\ UNCHANGED outputs

\* main.py 176-189: the attributes expired by the commit are read back from
\* the store and returned; the read raises when the row is gone
create_job_return ==
    /\ req.op = "create"
    /\ \E o \in StoreOutcomes :
        IF o = "ok" /\ req.id \in DOMAIN jobs
        THEN resp' = [NoResp EXCEPT !.op = "create", !.code = 200,
                                    !.job = req.id,
                                    !.status = jobs[req.id].status]
        ELSE resp' = [NoResp EXCEPT !.op = "create", !.code = 500,
                                    !.job = req.id,
                                    !.detail = "Internal Server Error"]
    /\ req' = NoReq
    /\ UNCHANGED <<jobs, outputs, task, now, nextId>>

\* ----------------------------------------------------------- execute_job
\* As execute_job_start, had the jobs been run by one worker, each after the
\* job before it has ended
execute_job_start_serial(j) ==
    /\ task[j].pc = "ready"
    /\ LoopIdle
    /\ \A k \in JobIds : k < j => task[k].pc \in {"none", "done", "raised"}
    /\ task' = [task EXCEPT ![j].pc = "query", ![j].sess = "active"]
    /\ UNCHANGED <<jobs, outputs, req, resp, now, nextId>>

\* main.py 104: the event loop starts the coroutine; it opens its session.
\* The loop runs the callbacks that are ready in the order they were
\* registered (call_soon), so tasks start in the order create_task made them.
execute_job_start(j) ==
    /\ task[j].pc = "ready"
    /\ LoopIdle
    /\ \A k \in JobIds : k < j => task[k].pc # "ready"
    /\ task' = [task EXCEPT ![j].pc = "query", ![j].sess = "active"]
    /\ UNCHANGED <<jobs, outputs, req, resp, now, nextId>>

\* As execute_job_query, had the test of line 109 been left out
execute_job_query_unchecked(j) ==
    /\ task[j].pc = "query"
    /\ \E o \in StoreOutcomes :
        IF o = "ok"
        THEN task' = [task EXCEPT ![j].pc = "mark_running"]
        ELSE task' = [task EXCEPT ![j].pc = "except", ![j].exc = DBError]
    /\ UNCHANGED <<jobs, outputs, req, resp, now, nextId>>

\* main.py 108-110
execute_job_query(j) ==
    /\ task[j].pc = "query"
    /\ \E o \in StoreOutcomes :
        IF o = "ok"
        THEN task' = [task EXCEPT ![j].pc =
                        IF j \in DOMAIN jobs THEN "mark_running" ELSE "finally"]
        ELSE task' = [task EXCEPT ![j].pc = "except", ![j].exc = DBError]
    /\ UNCHANGED <<jobs, outputs, req, resp, now, nextId>>

\* main.py 112-114
SetRunning(js, j, t) ==
    [js EXCEPT ![j].status = RUNNING, ![j].started_at = t, ![j].updated_at = t]

\* The UPDATE of a row that is no longer in the table matches no row, and
\* the flush of the commit raises.
execute_job_running(j) ==
    /\ task[j].pc = "mark_running"
    /\ \E o \in StoreOutcomes :
        IF o = "ok" /\ j \in DOMAIN jobs
        THEN \E t \in ClockReads :
             /\ jobs' = SetRunning(jobs, j, t)
             /\ task' = [task EXCEPT ![j].pc = "dispatch"]
             /\ now' = t
        ELSE /\ UNCHANGED <<jobs, now>>
             /\ task' = [task EXCEPT ![j].pc = "except", ![j].exc = DBError,
                                     ![j].sess = "inactive"]
    /\ UNCHANGED <<outputs, req, resp, nextId>>

\* main.py 117-126: the generator that the if/elif chain selects for a type
Dispatch(jt) ==
    IF jt = LEAD_LIST THEN "generate_lead_list"
    ELSE IF jt = PROMPT_PACK THEN "generate_prompt_pack"
    ELSE IF jt = WEEKLY_PILOT_MEMO THEN "generate_weekly_pilot_memo"
    ELSE IF jt = RESEARCH_BRIEF THEN "generate_research_brief"
    ELSE "ValueError"

\* main.py 117-126 up to the generator's first suspension or its LLM call.
\* generate_lead_list returns its notice; generate_weekly_pilot_memo awaits
\* the Slush snapshot (generators.py 195), which suspends the coroutine when
\* the request is sent and does not when SlushAPI() raises first.
execute_job_dispatch(j) ==
    /\ task[j].pc = "dispatch"
    /\ LET g == Dispatch(task[j].job_type) IN
        \E suspends \in BOOLEAN :
          task' =
            IF g = "generate_lead_list"
            THEN [task EXCEPT ![j].pc = "store", ![j].content = LeadListNoticeLen]
            ELSE IF g = "ValueError"
            THEN [task EXCEPT ![j].pc = "except", ![j].exc = UnknownType]
            ELSE IF g = "generate_weekly_pilot_memo" /\ suspends
            THEN [task EXCEPT ![j].pc = "awaiting"]
            ELSE [task EXCEPT ![j].pc = "generate"]
    /\ UNCHANGED <<jobs, outputs, req, resp, now, nextId>>

\* generators.py 195: the awaited Slush fetch has returned or raised (both are
\* turned into a string); the event loop resumes the coroutine
execute_job_resume(j) ==
    /\ task[j].pc = "awaiting"
    /\ LoopIdle
    /\ task' = [task EXCEPT ![j].pc = "generate"]
    /\ UNCHANGED <<jobs, outputs, req, resp, now, nextId>>

\* generators.py 159-171, 292-304, 423-435: the blocking call of llm.generate;
\* an LLMError is re-raised as Exception("Failed to generate ...")
execute_job_generate(j) ==
    /\ task[j].pc = "generate"
    /\ \E r \in GenerateResults :
        task' = IF r.ok
                THEN [task EXCEPT ![j].pc = "store", ![j].content = r.len]
                ELSE [task EXCEPT ![j].pc = "except", ![j].exc = GeneratorError]
    /\ UNCHANGED <<jobs, outputs, req, resp, now, nextId>>

\* main.py 129-135: the Output row of the job, with the column defaults
NewOutput(outs, j, jt, content, t) ==
    [id |-> Len(outs) + 1, job_id |-> j, type |-> jt, content_text |-> content,
     content_type |-> "text/markdown", created_at |-> t]

\* As AddOutput, had db.add(output) been left out
AddOutputForgotten(outs, row) == outs

\* main.py 135: db.add(output)
AddOutput(outs, row) == Append(outs, row)

\* As SetSucceeded, had it stamped started_at as well
SetSucceededRestamps(js, j, t) ==
    [js EXCEPT ![j].status = SUCCEEDED, ![j].started_at = t,
               ![j].finished_at = t, ![j].updated_at = t]

\* As SetSucceeded, had the status been left for a later commit than the
\* one that inserts the Output
SetSucceededDeferred(js, j, t) == js

\* main.py 138-139
SetSucceeded(js, j, t) ==
    [js EXCEPT ![j].status = SUCCEEDED, ![j].finished_at = t, ![j].updated_at = t]

\* main.py 128-140: the Output insert and the job update are flushed and
\* committed by the one commit of line 140; the commit raises, and writes
\* neither, when the job's row is no longer in the table
execute_job_store(j) ==
    /\ task[j].pc = "store"
    /\ \E o \in StoreOutcomes :
        IF o = "ok" /\ j \in DOMAIN jobs
        THEN \E t \in ClockReads :
             /\ outputs' = AddOutput(outputs,
                    NewOutput(outputs, j, task[j].job_type, task[j].content, t))
             /\ jobs' = SetSucceeded(jobs, j, t)
             /\ task' = [task EXCEPT ![j].pc = "finally"]
             /\ now' = t
        ELSE /\ UNCHANGED <<outputs, jobs, now>>
             /\ task' = [task EXCEPT ![j].pc = "except", ![j].exc = DBError,
                                     ![j].sess = "inactive"]
    /\ UNCHANGED <<req, resp, nextId>>

\* As SetFailed, had the handler put the job back in the queue for a retry
SetFailedRequeue(js, j, e, t) ==
    [js EXCEPT ![j].status = QUEUED, ![j].error_text = Str(e),
               ![j].updated_at = t]

\* As SetFailed, had the handler not recorded str(e)
SetFailedNoText(js, j, e, t) ==
    [js EXCEPT ![j].status = FAILED, ![j].finished_at = t, ![j].updated_at = t]

\* As SetFailed, had the handler's query not filtered on the job id: every
\* job that is running is marked
SetFailedEveryRunning(js, j, e, t) ==
    [k \in DOMAIN js |->
        IF k = j \/ js[k].status = RUNNING
        THEN [js[k] EXCEPT !.status = FAILED, !.error_text = Str(e),
                           !.finished_at = t, !.updated_at = t]
        ELSE js[k]]

\* main.py 146-148
SetFailed(js, j, e, t) ==
    [js EXCEPT ![j].status = FAILED, ![j].error_text = Str(e),
               ![j].finished_at = t, ![j].updated_at = t]

\* main.py 142-150. The handler does not roll back: after a failed commit the
\* session refuses every statement (PendingRollbackError), and an error of
\* the handler's own query or commit is not caught by anything.
execute_job_except(j) ==
    /\ task[j].pc = "except"
    /\ IF task[j].sess = "inactive"
       THEN /\ task' = [task EXCEPT ![j].pc = "finally", ![j].escaped = TRUE,
                                    ![j].exc = PendingRollback]
            /\ UNCHANGED <<jobs, now>>
       ELSE \E q \in StoreOutcomes :
            IF q # "ok"
            THEN /\ task' = [task EXCEPT ![j].pc = "finally", ![j].escaped = TRUE,
                                         ![j].exc = DBError]
                 /\ UNCHANGED <<jobs, now>>
            ELSE IF j \notin DOMAIN jobs
            THEN /\ task' = [task EXCEPT ![j].pc = "finally"]
                 /\ UNCHANGED <<jobs, now>>
            ELSE \E c \in StoreOutcomes :
                 IF c = "ok"
                 THEN \E t \in ClockReads :
                      /\ task' = [task EXCEPT ![j].pc = "finally"]
                      /\ jobs' = SetFailed(jobs, j, task[j].exc, t)
                      /\ now' = t
                 ELSE /\ task' = [task EXCEPT ![j].pc = "finally",
                                              ![j].escaped = TRUE,
                                              ![j].exc = DBError,
                                              ![j].sess = "inactive"]
                      /\ UNCHANGED <<jobs, now>>
    /\ UNCHANGED <<outputs, req, resp, nextId>>

\* As execute_job_finally, had db.close() been the last statement of the try
\* block instead of a finally clause: it runs on the success path only
execute_job_close_in_try(j) ==
    /\ task[j].pc = "finally"
    /\ task' = [task EXCEPT
                  ![j].sess = IF task[j].exc = NoExc THEN "closed" ELSE @,
                  ![j].pc = IF task[j].escaped THEN "raised" ELSE "done"]
    /\ UNCHANGED <<jobs, outputs, req, resp, now, nextId>>

\* main.py 152-153: db.close(), then the coroutine returns or the exception
\* that escaped the handler leaves it
execute_job_finally(j) ==
    /\ task[j].pc = "finally"
    /\ task' = [task EXCEPT ![j].sess = "closed",
                            ![j].pc = IF task[j].escaped THEN "raised" ELSE "done"]
    /\ UNCHANGED <<jobs, outputs, req, resp, now, nextId>>

\* --------------------------------------------------------- chat_with_job
\* db.query(Output).filter(Output.job_id == job_id)
OutputsOfJob(outs, j) == SelectSeq(outs, LAMBDA o : o.job_id = j)

\* main.py 289-315, the body of the try block: what it returns or raises
ChatTry(cid, q1, q2, r) ==
    IF q1 # "ok"
    THEN [exc |-> DBError, code |-> 500, detail |-> "", llm |-> FALSE,
          ctx |-> NoCtx]
    ELSE IF cid \notin DOMAIN jobs
    THEN [exc |-> HTTPException, code |-> 404, detail |-> "Job not found",
          llm |-> FALSE, ctx |-> NoCtx]
    ELSE IF q2 # "ok"
    THEN [exc |-> DBError, code |-> 500, detail |-> "", llm |-> FALSE,
          ctx |-> NoCtx]
    ELSE IF OutputsOfJob(outputs, cid) = <<>>
    THEN [exc |-> HTTPException, code |-> 404, detail |-> "Job output not found",
          llm |-> FALSE, ctx |-> NoCtx]
    ELSE LET output == Head(OutputsOfJob(outputs, cid)) IN
         IF r.ok
         THEN [exc |-> NoExc, code |-> 200, detail |-> "", llm |-> TRUE,
               ctx |-> ChatContext(output.content_text)]
         ELSE [exc |-> LLMError, code |-> 500, detail |-> "", llm |-> TRUE,
               ctx |-> ChatContext(output.content_text)]

\* isinstance(e, Exception): every class the try block can raise derives from
\* Exception, fastapi's HTTPException included
IsException(cls) ==
    cls \in {DBError, PendingRollback, GeneratorError, UnknownType, LLMError,
             HTTPException}

\* main.py 317-321: the except clauses, tried in order
ChatExcept(t) ==
    IF t.exc = NoExc THEN t
    ELSE IF t.exc = LLMError
    THEN [t EXCEPT !.exc = HTTPException, !.code = 500,
                   !.detail = "Error generating response"]
    ELSE IF IsException(t.exc)
    THEN [t EXCEPT !.exc = HTTPException, !.code = 500,
                   !.detail = "Internal server error"]
    ELSE t

\* As chat_with_job, had a chat that got its reply stamped the job's row
chat_with_job_touching(cid) ==
    /\ LoopIdle
    /\ \E q1 \in StoreOutcomes, q2 \in StoreOutcomes, r \in GenerateResults :
        LET t == ChatExcept(ChatTry(cid, q1, q2, r)) IN
        /\ resp' = [NoResp EXCEPT !.op = "chat", !.job = cid, !.code = t.code,
                                  !.detail = t.detail, !.llm = t.llm,
                                  !.ctx = t.ctx]
        /\ IF t.code = 200
           THEN \E c \in ClockReads :
                /\ jobs' = [jobs EXCEPT ![cid].updated_at = c]
                /\ now' = c
           ELSE UNCHANGED <<jobs, now>>
    /\ UNCHANGED <<outputs, task, req, nextId>>

\* main.py 286-324
chat_with_job(cid) ==
    /\ LoopIdle
    /\ resp' \in
        {[NoResp EXCEPT !.op = "chat", !.job = cid, !.code = t.code,
                        !.detail = t.detail, !.llm = t.llm,
                                  !.ctx = t.ctx] :
            t \in {ChatExcept(ChatTry(cid, q1, q2, r)) :
                     q1 \in StoreOutcomes, q2 \in StoreOutcomes,
                     r \in GenerateResults}}
    /\ UNCHANGED <<jobs, outputs, task, req, now, nextId>>

\* ----------------------------------------------------- get_latest_output
\* .filter(Output.type == type)
FilterByType(outs, ty) == SelectSeq(outs, LAMBDA o : o.type = ty)

\* The permutations of the positions of a sequence
Orders(n) ==
    {p \in [1..n -> 1..n] : \A a, b \in 1..n : p[a] = p[b] => a = b}

\* As OrderByCreatedAtDesc, had the query ordered by created_at ascending
OrderByCreatedAtAsc(rows) ==
    {[i \in 1..Len(rows) |-> rows[p[i]]] :
        p \in {q \in Orders(Len(rows)) :
                 \A a, b \in 1..Len(rows) :
                    a < b => rows[q[a]].created_at <= rows[q[b]].created_at}}

\* .order_by(Output.created_at.desc()): the orders the database may answer
\* with; rows of equal created_at come in any order
OrderByCreatedAtDesc(rows) ==
    {[i \in 1..Len(rows) |-> rows[p[i]]] :
        p \in {q \in Orders(Len(rows)) :
                 \A a, b \in 1..Len(rows) :
                    a < b => rows[q[a]].created_at >= rows[q[b]].created_at}}

\* The values a caller may pass as type: the job types and a string that is
\* the type of no Output
TypeArgs == JobType \cup {"no_such_type"}

\* main.py 264-282
get_latest_output(ty) ==
    /\ LoopIdle
    /\ \E q \in StoreOutcomes :
        IF q # "ok"
        THEN resp' = [NoResp EXCEPT !.op = "latest", !.type = ty, !.code = 500,
                                    !.detail = "Internal Server Error",
                                    !.rows = Len(outputs)]
        ELSE \E ordered \in OrderByCreatedAtDesc(FilterByType(outputs, ty)) :
            IF ordered = <<>>
            THEN resp' = [NoResp EXCEPT !.op = "latest", !.type = ty,
                                        !.code = 404,
                                        !.detail = "Output not found",
                                        !.rows = Len(outputs)]
            ELSE resp' = [NoResp EXCEPT !.op = "latest", !.type = ty,
                                        !.code = 200, !.out = Head(ordered).id,
                                        !.rows = Len(outputs)]
    /\ UNCHANGED <<jobs, outputs, task, req, now, nextId>>


execute_job(j) ==
    \/ execute_job_start(j)
    \/ execute_job_query(j)
    \/ execute_job_running(j)
    \/ execute_job_dispatch(j)
    \/ execute_job_resume(j)
    \/ execute_job_generate(j)
    \/ execute_job_store(j)
    \/ execute_job_except(j)
    \/ execute_job_finally(j)

Next ==
    \/ \E jt \in JobType : create_job(jt)
    \/ create_job_return
    \/ \E j \in JobIds : execute_job(j)
    \/ \E cid \in JobIds : chat_with_job(cid)
    \/ \E ty \in TypeArgs : get_latest_output(ty)

Spec == Init /\ [][Next]_vars

\* main.py 102, 125-126: a job_type argument for which the if/elif chain of
\* execute_job has no branch. CreateJobRequest.type is a JobType and every
\* member of JobType has a branch, so the API passes no such value today;
\* the else branch is written for the day it does.
ExtraType == "extra_type"

\* create_job called with any type, the one without a branch included, and
\* the tasks it spawns
AnyTypeNext ==
    \/ \E jt \in JobType \cup {ExtraType} : create_job(jt)
    \/ create_job_return
    \/ \E j \in JobIds : execute_job(j)

AnyTypeSpec == Init /\ [][AnyTypeNext]_vars

\* main.py 108-110, 144-145: what execute_job provides for, a job row that is
\* not in the table. No statement of the program deletes a row; here another
\* client of the database deletes the row of a job, at any moment, as long
\* as no Output refers to it (Output.job_id is a foreign key).
row_deleted(j) ==
    /\ j \in DOMAIN jobs
    /\ OutputsOfJob(outputs, j) = <<>>
    /\ jobs' = [k \in DOMAIN jobs \ {j} |-> jobs[k]]
    /\ UNCHANGED <<outputs, task, req, resp, now, nextId>>

\* create_job and the tasks it spawns, on a table that loses rows
VanishNext ==
    \/ \E jt \in JobType : create_job(jt)
    \/ create_job_return
    \/ \E j \in JobIds : execute_job(j)
    \/ \E j \in JobIds : row_deleted(j)

VanishSpec == Init /\ [][VanishNext]_vars

\* Lengths of a stored output on both sides of the cap of the chat prompt
Margin == 12

ContextLens == (ChatContextCap - Margin)..(ChatContextCap + Margin)

\* A prompt_pack job that SUCCEEDED at time 1 with an output of one of these
\* lengths, its task ended, no request running
ChatContextInit ==
    \E len \in ContextLens, p \in ParamsArgs :
        /\ jobs = SetSucceeded(
                     SetRunning(1 :> NewJob(PROMPT_PACK, p, 1), 1, 1), 1, 1)
        /\ outputs = AddOutput(<<>>, NewOutput(<<>>, 1, PROMPT_PACK, len, 1))
        /\ task = [j \in JobIds |->
                     IF j = 1
                     THEN [SpawnedTask(PROMPT_PACK) EXCEPT !.pc = "done",
                                                          !.content = len]
                     ELSE NoTask]
        /\ req = NoReq
        /\ resp = NoResp
        /\ now = 1
        /\ nextId = 2

\* chats about that job (and about a job that does not exist)
ChatContextNext == \E cid \in JobIds : chat_with_job(cid)

ChatContextSpec == ChatContextInit /\ [][ChatContextNext]_vars

\* ------------------------------------------------------------ file_loader
FileLoaderError == "FileLoaderError"
TypeError == "TypeError"
OSError == "OSError"

\* file_loader.py 18-22
ALLOWED_DIRECTORIES == {"repo_snapshots", "pilot_data_exports", "outputs"}

\* file_loader.py 110-114
param_to_dir ==
    [repo_snapshot_key |-> "repo_snapshots",
     data_export_key |-> "pilot_data_exports",
     notes_key |-> "outputs"]

\* Names of parameters: the three that refer to a file and one that does not
ParamNames == DOMAIN param_to_dir \cup {"api_key"}

\* What the file system holds under the name of a key, in the order in which
\* load_file finds out: resolve() raises (a symlink loop, a null byte); the
\* name resolves to a place outside the directory; the name is longer than
\* the file system allows; nothing has the name; a directory has it; stat()
\* raises; the file is over MAX_FILE_SIZE; it is not UTF-8; reading it
\* fails; it is empty; it holds text.
FsStates ==
    {"resolve_error", "outside_base", "name_too_long", "missing", "directory",
     "stat_error", "too_large", "not_utf8", "read_error", "empty", "text"}

\* A value of a parameter: its Python type, what its text contains when it is
\* a string, and what the file system holds under it. params is a
\* Dict[str, Any] (main.py 68), so a value is any JSON value.
FileKeys ==
    {[type |-> "NoneType", text |-> "", fs |-> "missing"],
     [type |-> "int", text |-> "", fs |-> "missing"],
     [type |-> "list", text |-> "", fs |-> "missing"],
     [type |-> "str", text |-> "", fs |-> "missing"],
     [type |-> "str", text |-> "..", fs |-> "missing"]}
        \cup {[type |-> "str", text |-> "name", fs |-> f] : f \in FsStates}

\* bool(file_key): None and the empty string are false; the int and the list
\* drawn here are a non-zero number and a non-empty list
Truthy(file_key) ==
    \/ file_key.type \in {"int", "list"}
    \/ file_key.type = "str" /\ file_key.text # ""

\* file_loader.py 24-94: the exception load_file raises, or what it returns
\* ("None", "" for an empty file, "text")
load_file(directory_type, file_key) ==
    IF directory_type \notin ALLOWED_DIRECTORIES
    THEN [exc |-> FileLoaderError, ret |-> "None"]
    \* line 44: '".." in file_key' on a number; line 49: Path / list
    ELSE IF file_key.type # "str"
    THEN [exc |-> TypeError, ret |-> "None"]
    ELSE IF file_key.text = ".."
    THEN [exc |-> FileLoaderError, ret |-> "None"]
    \* lines 52-62: every exception of the try block becomes FileLoaderError
    ELSE IF file_key.fs \in {"resolve_error", "outside_base"}
    THEN [exc |-> FileLoaderError, ret |-> "None"]
    \* line 65: exists() re-raises the OSError of stat() unless it says that
    \* the file is not there; nothing around line 65 catches it
    ELSE IF file_key.fs = "name_too_long"
    THEN [exc |-> OSError, ret |-> "None"]
    ELSE IF file_key.fs = "missing"
    THEN [exc |-> NoExc, ret |-> "None"]
    ELSE IF file_key.fs \in {"directory", "stat_error", "too_large",
                             "not_utf8", "read_error"}
    THEN [exc |-> FileLoaderError, ret |-> "None"]
    ELSE IF file_key.fs = "empty"
    THEN [exc |-> NoExc, ret |-> ""]
    ELSE [exc |-> NoExc, ret |-> "text"]

\* Most items of a parameter mapping
MaxRefs == 2

\* The parameter mappings: items in the order of the dict, names distinct
FileRefs ==
    {refs \in UNION {[1..n -> [name : ParamNames, key : FileKeys]] :
                        n \in 0..MaxRefs} :
        \A a, b \in DOMAIN refs : refs[a].name = refs[b].name => a = b}

\* generators.py 66: the frame of a prompt_pack task that calls
\* load_multiple_files(file_refs); ref is the item the for loop is at
LoaderFrame(refs) ==
    [file_refs |-> refs, ref |-> 1, loaded_files |-> <<>>]
        @@ [SpawnedTask(PROMPT_PACK) EXCEPT !.pc = "load_files",
                                            !.sess = "active"]

\* A prompt_pack job that is RUNNING, its generator at the call of
\* load_multiple_files with one of the mappings
LoaderInit ==
    \E refs \in FileRefs, p \in ParamsArgs :
        /\ jobs = SetRunning(1 :> NewJob(PROMPT_PACK, p, 1), 1, 1)
        /\ outputs = <<>>
        /\ task = [j \in JobIds |->
                     IF j = 1 THEN LoaderFrame(refs) ELSE NoTask]
        /\ req = NoReq
        /\ resp = NoResp
        /\ now = 1
        /\ nextId = 2

\* file_loader.py 116-127: one pass of the for loop. An exception that is
\* not a FileLoaderError leaves load_multiple_files and the generator, which
\* catches LLMError only, and arrives in the handler of execute_job.
load_multiple_files_item(j) ==
    /\ task[j].pc = "load_files"
    /\ task[j].ref <= Len(task[j].file_refs)
    /\ LET param_name == task[j].file_refs[task[j].ref].name
           file_key == task[j].file_refs[task[j].ref].key
       IN
       IF param_name \in DOMAIN param_to_dir /\ Truthy(file_key)
       THEN LET r == load_file(param_to_dir[param_name], file_key) IN
            IF r.exc = NoExc
            THEN task' = [task EXCEPT
                    ![j].ref = @ + 1,
                    ![j].loaded_files =
                        IF r.ret = "text" THEN (param_name :> r.ret) @@ @
                        ELSE @]
            ELSE IF r.exc = FileLoaderError
            THEN task' = [task EXCEPT ![j].ref = @ + 1]
            ELSE task' = [task EXCEPT ![j].pc = "except", ![j].exc = r.exc]
       ELSE task' = [task EXCEPT ![j].ref = @ + 1]
    /\ UNCHANGED <<jobs, outputs, req, resp, now, nextId>>

\* file_loader.py 129: return loaded_files; the generator goes on to its
\* prompt and its call of llm.generate
load_multiple_files_return(j) ==
    /\ task[j].pc = "load_files"
    /\ task[j].ref > Len(task[j].file_refs)
    /\ task' = [task EXCEPT ![j].pc = "generate"]
    /\ UNCHANGED <<jobs, outputs, req, resp, now, nextId>>

LoaderNext ==
    \/ \E j \in JobIds : load_multiple_files_item(j)
    \/ \E j \in JobIds : load_multiple_files_return(j)

LoaderSpec == LoaderInit /\ [][LoaderNext]_vars

\* ================================================================ claims
Terminal(st) == st \in {SUCCEEDED, FAILED}

\* QUEUED < RUNNING < {SUCCEEDED, FAILED}
Rank(st) == IF st = QUEUED THEN 0 ELSE IF st = RUNNING THEN 1 ELSE 2

Ended(j) == task[j].pc \in {"done", "raised"}

\* C1: in every step the persisted status of every job stays or moves forward
\* in the order QUEUED < RUNNING < {SUCCEEDED, FAILED}, and a job that is
\* SUCCEEDED or FAILED keeps that status in every later state; no job row
\* disappears.
C1_StatusMonotonic ==
    [][\A j \in DOMAIN jobs :
          /\ j \in DOMAIN jobs'
          /\ Rank(jobs'[j].status) >= Rank(jobs[j].status)
          /\ Terminal(jobs[j].status) => jobs'[j].status = jobs[j].status]_vars

\* C1 witness: one job has ended SUCCEEDED and another FAILED
C1_Witness ==
    \E j, k \in DOMAIN jobs :
        /\ jobs[j].status = SUCCEEDED /\ Ended(j)
        /\ jobs[k].status = FAILED /\ Ended(k)

\* C2: in every committed store state a SUCCEEDED job has exactly one Output
\* row with its job_id.
C2_SucceededHasOneOutput ==
    \A j \in DOMAIN jobs :
        jobs[j].status = SUCCEEDED => Len(OutputsOfJob(outputs, j)) = 1

\* C2 witness: two jobs are SUCCEEDED, so the outputs table holds two rows
C2_Witness ==
    \E j, k \in DOMAIN jobs :
        j # k /\ jobs[j].status = SUCCEEDED /\ jobs[k].status = SUCCEEDED

\* C3: in every committed store state a FAILED job has an error_text that is
\* neither NULL nor empty, and no Output row refers to it.
C3_FailedHasErrorNoOutput ==
    \A j \in DOMAIN jobs :
        jobs[j].status = FAILED =>
            /\ jobs[j].error_text \notin {NoText, ""}
            /\ OutputsOfJob(outputs, j) = <<>>

\* C3 witness: one job FAILED on a generator error and another on a store
\* error
C3_Witness ==
    \E j, k \in DOMAIN jobs :
        /\ jobs[j].status = FAILED /\ task[j].exc = GeneratorError
        /\ jobs[k].status = FAILED /\ task[k].exc = DBError

\* C4 (as claimed): started_at is NULL exactly when the status is QUEUED, and
\* finished_at is NULL exactly when the status is QUEUED or RUNNING.
C4_TimestampsMatchStatus ==
    \A j \in DOMAIN jobs :
        /\ (jobs[j].started_at = NULL) <=> (jobs[j].status = QUEUED)
        /\ (jobs[j].finished_at = NULL) <=> (jobs[j].status \in {QUEUED, RUNNING})

\* C5: a Job returned by create has status QUEUED, and from the spawn to the
\* return of create the execution task has not taken a step.
C5_CreateReturnsQueued ==
    /\ (resp.op = "create" /\ resp.code = 200) => resp.status = QUEUED
    /\ req.op = "create" => task[req.id].pc = "ready"

\* C5 witness: create has returned job 2 while the task of job 1 is suspended
\* and the task of job 2 has since run to its end
C5_Witness ==
    /\ resp.op = "create" /\ resp.code = 200 /\ resp.job = 2
    /\ 1 \in DOMAIN jobs /\ task[1].pc = "awaiting"
    /\ Ended(2) /\ Terminal(jobs[2].status)

\* C6 (as claimed): a chat on a job that does not exist or has no Output is
\* answered 404, and llm.generate is not called.
C6_ChatWithoutOutputIs404 ==
    (resp.op = "chat"
      /\ (resp.job \notin DOMAIN jobs \/ OutputsOfJob(outputs, resp.job) = <<>>))
        => (resp.code = 404 /\ ~resp.llm)

\* What one task's failure handling may not touch of another job b
Untouched(b) ==
    /\ jobs'[b] = jobs[b]
    /\ OutputsOfJob(outputs', b) = OutputsOfJob(outputs, b)
    /\ task'[b] = task[b]

\* C7: a step of the failure handling of the task of job a leaves the record,
\* the Output and the task of every other job b as they were; and each job's
\* outcome is that of its own task: a SUCCEEDED job holds the text its own
\* generator call returned, a FAILED job the error its own task raised.
C7_FailureIsolation ==
    /\ [][\A a \in JobIds :
            (task[a].pc = "except" /\ task'[a] # task[a]) =>
                \A b \in DOMAIN jobs \ {a} : Untouched(b)]_vars
    /\ [](\A b \in DOMAIN jobs :
            /\ jobs[b].status = SUCCEEDED =>
                 /\ task[b].exc = NoExc
                 /\ \E i \in DOMAIN outputs :
                       /\ outputs[i].job_id = b
                       /\ outputs[i].content_text = task[b].content
            /\ jobs[b].status = FAILED =>
                 /\ task[b].exc # NoExc
                 /\ jobs[b].error_text = Str(task[b].exc))

\* C7 witness: the task of job a has just marked a FAILED on a generator
\* error while job b is RUNNING, its task suspended in its generator
C7_Witness ==
    \E a, b \in DOMAIN jobs :
        /\ a # b
        /\ task[a].pc = "finally" /\ task[a].exc = GeneratorError
        /\ jobs[a].status = FAILED
        /\ task[b].pc = "awaiting" /\ jobs[b].status = RUNNING

\* The outputs table as the last get_latest_output query saw it
RowsSeen == SubSeq(outputs, 1, resp.rows)

\* C8: get_latest_output(type) answers 404 exactly when the table holds no
\* Output of that type, and otherwise answers with an Output of that type
\* whose created_at is not below that of any Output of that type (a failed
\* query is answered 500).
C8_LatestOutputIsNewest ==
    resp.op = "latest" =>
        LET rows == FilterByType(RowsSeen, resp.type) IN
        /\ resp.code \in {200, 404, 500}
        /\ resp.code # 500 => (resp.code = 404 <=> rows = <<>>)
        /\ resp.code = 200 =>
            /\ resp.out \in 1..resp.rows
            /\ outputs[resp.out].type = resp.type
            /\ \A i \in 1..Len(rows) :
                  rows[i].created_at <= outputs[resp.out].created_at

\* C8 witness: the query was answered with an Output while the table held
\* an older Output of the same type
C8_Witness ==
    /\ resp.op = "latest" /\ resp.code = 200
    /\ \E i \in 1..resp.rows :
        /\ outputs[i].type = resp.type
        /\ outputs[i].created_at < outputs[resp.out].created_at

\* C9 (as claimed, in the form a finite run refutes): no other task writes a
\* job, so a job reaches SUCCEEDED or FAILED only through its own execution
\* task: when that task has ended, the job is SUCCEEDED or FAILED.
C9_EndedTaskLeftJobTerminal ==
    \A j \in DOMAIN jobs : Ended(j) => Terminal(jobs[j].status)

\* C10 (as claimed): no error leaves execute_job, and a task in which an
\* error was raised has marked its job FAILED by the time it ends.
C10_NoErrorEscapes ==
    \A j \in DOMAIN jobs :
        /\ ~task[j].escaped
        /\ (Ended(j) /\ task[j].exc # NoExc) => jobs[j].status = FAILED

\* C11 (as claimed; the program violates it): for every job type, while a
\* job's task is inside an external network call of its generator (the
\* awaited Slush fetch, or the call of the text-generation service) the event
\* loop is not held: a request can be handled, and the task of another job
\* that is next in the loop's queue can start, before the call returns.
C11_NetworkCallYieldsLoop ==
    \A j \in DOMAIN jobs :
        task[j].pc \in {"awaiting", "generate"} =>
            /\ ENABLED (\E ty \in TypeArgs : get_latest_output(ty))
            /\ \A k \in DOMAIN jobs \ {j} :
                  (task[k].pc = "ready" /\ req = NoReq)
                      => ENABLED (\E i \in JobIds : execute_job_start(i))

\* C12: the Output insert and the SUCCEEDED transition are one commit. In
\* every state of the store an Output row of job j exists only if j is
\* SUCCEEDED, and a job has at most one; the step that inserts the row is the
\* step that makes its job SUCCEEDED; a row, once stored, is never modified
\* or removed.
C12_OutputCommittedWithSucceeded ==
    /\ [](\A i \in 1..Len(outputs) :
            /\ outputs[i].job_id \in DOMAIN jobs
            /\ jobs[outputs[i].job_id].status = SUCCEEDED
            /\ \A k \in 1..Len(outputs) :
                  outputs[k].job_id = outputs[i].job_id => k = i)
    /\ [][/\ Len(outputs') >= Len(outputs)
          /\ \A i \in 1..Len(outputs) : outputs'[i] = outputs[i]
          /\ \A i \in (Len(outputs) + 1)..Len(outputs') :
                /\ jobs[outputs'[i].job_id].status = RUNNING
                /\ jobs'[outputs'[i].job_id].status = SUCCEEDED]_vars

\* one job's Output and SUCCEEDED were committed, another job's commit of
\* line 140 failed and left neither
C12_Witness ==
    \E j, k \in DOMAIN jobs :
        /\ Len(OutputsOfJob(outputs, j)) = 1
        /\ jobs[j].status = SUCCEEDED
        /\ task[k].pc = "except" /\ task[k].sess = "inactive"
        /\ task[k].content > 0
        /\ jobs[k].status = RUNNING
        /\ OutputsOfJob(outputs, k) = <<>>

\* C13: a chat request never creates, modifies or deletes a Job or an Output,
\* whether it answers with a reply, with 404 or with an error of the
\* generation: the step that produces a chat response leaves both tables as
\* they were.
C13_ChatLeavesStoreAlone ==
    [][(resp'.op = "chat" /\ resp' # resp)
          => (jobs' = jobs /\ outputs' = outputs)]_vars

\* a chat about a job with an Output got its reply
C13_Witness ==
    /\ resp.op = "chat" /\ resp.code = 200 /\ resp.llm
    /\ jobs[resp.job].status = SUCCEEDED
    /\ Len(OutputsOfJob(outputs, resp.job)) = 1

C15_OutputContentNonEmpty ==
    \A i \in 1..Len(outputs) :
        jobs[outputs[i].job_id].status = SUCCEEDED
            => outputs[i].content_text > 0

\* C16: a task opens its own store session when it starts and closes it on
\* every path out of execute_job: a task that has not started or has ended
\* holds no open session, a task in between holds one, and the session of a
\* request is closed once the request is answered.
C16_SessionsReleased ==
    /\ \A j \in JobIds :
          (task[j].pc \in {"none", "ready", "done", "raised"})
              <=> task[j].sess = "closed"
    /\ req.op = "none" <=> req.sess = "closed"

\* one task ended by the early return of line 110, its row missing, and one
\* by an error that escaped its handler after a commit that failed
C16_Witness ==
    \E j, k \in JobIds :
        /\ task[j].pc = "done" /\ task[j].sess = "closed"
        /\ task[j].exc = NoExc /\ j \notin DOMAIN jobs
        /\ task[k].pc = "raised" /\ task[k].exc = PendingRollback
        /\ task[k].sess = "closed"

\* C18: a task whose job row is missing writes nothing, neither a job row
\* nor an Output. When the row is missing at the task's first query the task
\* returns (or, if the query raised, enters the handler) and never reaches a
\* generator; when it is missing at the handler's query the failure is
\* dropped and the task returns.
C18_MissingRecordNoWrite ==
    [][\A j \in JobIds :
          (j \notin DOMAIN jobs /\ task[j].pc # "none" /\ task'[j] # task[j])
              => /\ jobs' = jobs
                 /\ outputs' = outputs
                 /\ task[j].pc = "query" => task'[j].pc \in {"finally", "except"}
                 /\ task[j].pc = "except" => task'[j].pc = "finally"]_vars

\* one task has returned at line 110 because its row was missing, and the
\* handler of another, whose generator raised, is at its query with the row
\* missing
C18_Witness ==
    \E j, k \in JobIds :
        /\ j \notin DOMAIN jobs /\ k \notin DOMAIN jobs
        /\ task[j].pc = "done" /\ task[j].exc = NoExc
        /\ task[k].pc = "except" /\ task[k].exc = GeneratorError
        /\ task[k].sess = "active"

\* C17: the order in which jobs were created imposes no order on their
\* completion. Whenever job a, created first, is suspended in its generator
\* and the task of a later job b is the next to start, the event loop can
\* go either way: resume a, which may then end before b, or start b, which
\* may then end before a. The witness is b terminal while a is still
\* suspended; a terminal before b has started is the other order.
C17_NoCompletionOrder ==
    \A a, b \in DOMAIN jobs :
        ( /\ a < b
          /\ task[a].pc = "awaiting"
          /\ task[b].pc = "ready"
          /\ \A k \in JobIds : k < b => task[k].pc # "ready"
          /\ LoopIdle )
            => /\ ENABLED execute_job_resume(a)
               /\ ENABLED execute_job_start(b)

C17_Witness ==
    \E a, b \in DOMAIN jobs :
        /\ a < b
        /\ task[a].pc = "awaiting" /\ jobs[a].status = RUNNING
        /\ Ended(b) /\ Terminal(jobs[b].status)

\* C19: the fields of a job are written once. No step changes the id (the
\* key of the row), type, params_json or created_at of a job; started_at
\* and finished_at, once set, keep their value; no step deletes a job.
C19_JobFieldsWriteOnce ==
    [][\A j \in DOMAIN jobs :
          /\ j \in DOMAIN jobs'
          /\ jobs'[j].type = jobs[j].type
          /\ jobs'[j].params_json = jobs[j].params_json
          /\ jobs'[j].created_at = jobs[j].created_at
          /\ jobs[j].started_at # NULL
                => jobs'[j].started_at = jobs[j].started_at
          /\ jobs[j].finished_at # NULL
                => jobs'[j].finished_at = jobs[j].finished_at]_vars

\* a job that finished later than it started, and a second job that was
\* written after the first had finished
C19_Witness ==
    \E j, k \in DOMAIN jobs :
        /\ j # k
        /\ jobs[j].started_at # NULL
        /\ jobs[j].started_at < jobs[j].finished_at
        /\ jobs[k].created_at >= jobs[j].finished_at
        /\ jobs[k].status = SUCCEEDED

\* C20: the output text that a chat puts in its prompt is a prefix of the
\* stored output, capped at 2000 characters: an output of at most 2000
\* characters goes in whole and no marker follows it; of a longer one exactly
\* the first 2000 characters go in, followed by the marker "...".
C20_ChatContextCapped ==
    (resp.op = "chat" /\ resp.llm) =>
        LET len == Head(OutputsOfJob(outputs, resp.job)).content_text IN
        /\ len <= 2000 => (resp.ctx.prefix = len /\ resp.ctx.marker = "")
        /\ len > 2000 => (resp.ctx.prefix = 2000 /\ resp.ctx.marker = "...")

\* a chat about an output of exactly 2000 characters was answered
C20_Witness ==
    /\ resp.op = "chat" /\ resp.llm /\ resp.code = 200
    /\ Head(OutputsOfJob(outputs, resp.job)).content_text = ChatContextCap
    /\ resp.ctx = [prefix |-> ChatContextCap, marker |-> ""]

\* the slots of a mapping that load, each on its own: a name that refers to
\* a directory, with a key that is given and whose file holds text
LoadableSlots(refs) ==
    {refs[i].name : i \in {k \in DOMAIN refs :
        /\ refs[k].name \in {"repo_snapshot_key", "data_export_key", "notes_key"}
        /\ refs[k].key.type = "str"
        /\ refs[k].key.text = "name"
        /\ refs[k].key.fs = "text"}}

\* C21 (as claimed; the program violates it): for every parameter mapping,
\* load_multiple_files never raises, whatever becomes of each load; the
\* mapping it builds holds only slots that loaded, and when it returns it
\* holds all of them: a slot that failed has not kept another from loading.
C21_LoadNeverFailsJob ==
    \A j \in JobIds :
        task[j].pc \in {"load_files", "generate", "except"} =>
            /\ task[j].pc # "except"
            /\ task[j].exc = NoExc
            /\ DOMAIN task[j].loaded_files \subseteq LoadableSlots(task[j].file_refs)
            /\ task[j].pc = "generate" =>
                  DOMAIN task[j].loaded_files = LoadableSlots(task[j].file_refs)

\* C22: a task is spawned only once the QUEUED row of its job is committed,
\* and one task per created job. A task exists exactly for the ids that were
\* persisted; a create whose commit fails answers its caller with an error
\* and leaves no row and no task; the step that spawns a task is the step
\* that commits its row as QUEUED; a task starts to run once, from the
\* queue of the loop, and a task that has ended stays ended.
C22_OneTaskPerCommittedJob ==
    /\ [](\A j \in JobIds : task[j].pc # "none" <=> j \in DOMAIN jobs)
    /\ [][/\ nextId' # nextId =>
               \/ /\ nextId \in DOMAIN jobs' \ DOMAIN jobs
                  /\ jobs'[nextId].status = QUEUED
                  /\ task'[nextId].pc = "ready"
               \/ /\ resp'.op = "create" /\ resp'.code = 500
                  /\ jobs' = jobs /\ task' = task
          /\ \A j \in JobIds :
               /\ (task[j].pc = "none" /\ task'[j].pc # "none")
                      => (nextId = j /\ nextId' = j + 1)
               /\ (task[j].pc # "ready" /\ task'[j].pc = "ready")
                      => task[j].pc = "none"
               /\ (task[j].pc # "query" /\ task'[j].pc = "query")
                      => task[j].pc = "ready"
               /\ Ended(j) => task'[j] = task[j]]_vars

\* the commit of the first create failed: its id has no row and no task;
\* the second create was committed and its one task has run to its end
C22_Witness ==
    /\ 1 \notin DOMAIN jobs /\ task[1] = NoTask
    /\ 2 \in DOMAIN jobs /\ Ended(2) /\ Terminal(jobs[2].status)
====
